---- MODULE Spec2Model ----
(***************************************************************************)
(* Model of apigpio's tick arithmetic and debounce decorator               *)
(* (src/apigpio/utils.py) and of the DHT11 sample decoder                  *)
(* (src/samples/gpio_dht11.py).                                            *)
(*                                                                         *)
(* Python integers are unbounded and ticks range over [0, 2^32), which is  *)
(* beyond the integers TLC evaluates.  Every tick-sized integer is         *)
(* therefore kept as a pair <<hi, lo>> standing for hi * 2^16 + lo with    *)
(* lo in 0..65535 and hi any (possibly negative) integer, and the          *)
(* arithmetic of the code is carried out on such pairs without loss.       *)
(***************************************************************************)
EXTENDS Integers, Sequences, FiniteSets, TLC

VARIABLES
    t1, t2, diff_out,       \* a call of tick_diff: its arguments and its result
    threshold,              \* debounce: the closure variable `threshold`
    decorates,              \* debounce: what the decorator was applied to
    deb,                    \* debounce: the one _decorated object
    partials,               \* debounce: instances a bound partial was handed out for
    fn_calls,               \* debounce: argument tuples the wrapped callback was called with
    log,                    \* debounce: the last call and the logger.debug line it wrote
    self,                   \* the DHT11 object
    pi,                     \* the apigpio.Pi connection: watchdog of the gpio, callbacks
    tasks,                  \* set_watchdog(gpio, 0) tasks created on the loop, not yet run
    exc,                    \* the exception the last callback raised, if any
    pc,                     \* where the driving coroutine stands
    result,                 \* the DHT11Result the last __anext__ returned
    count,                  \* main: the number of valid results so far
    closes,                 \* completed close() calls since the last other call
    sensor                  \* the sensor on the line: the frame it sends and how far it got

tdvars == <<t1, t2, diff_out>>
debvars == <<threshold, decorates, deb, partials, fn_calls, log>>
dhtvars == <<self, pi, tasks, exc, pc, result, count, closes, sensor>>

None == "None"

\* no logger.debug line has been written
NoLog == [msg |-> "none"]

----------------------------------------------------------------------------
(* Unbounded integers as used by the Python code.                          *)

Radix == 65536

\* n, 0 <= n < 2^31, as a pair
IntOf(n) == <<n \div Radix, n % Radix>>

\* carry the low limb into the high limb
IntNorm(x) == <<x[1] + (x[2] \div Radix), x[2] % Radix>>

\* a + b
IntAdd(a, b) == IntNorm(<<a[1] + b[1], a[2] + b[2]>>)

\* a - b
IntSub(a, b) == IntNorm(<<a[1] - b[1], a[2] - b[2]>>)

\* a < b
IntLt(a, b) == a[1] < b[1] \/ (a[1] = b[1] /\ a[2] < b[2])

\* a <= b
IntLe(a, b) == a = b \/ IntLt(a, b)

IntZero == <<0, 0>>

\* 1 << 32
TwoTo32 == <<Radix, 0>>

\* x mod 2^32
Mod32(x) == <<x[1] % Radix, x[2]>>

\* The ticks pigpio delivers: 0 <= t < 2^32.
IsTick(x) == x[1] \in 0..(Radix - 1) /\ x[2] \in 0..(Radix - 1)

----------------------------------------------------------------------------
(* utils.tick_diff                                                         *)

tick_diff_wrong(a, b) ==
    LET diff == IntSub(b, a)
    IN  IF IntLe(diff, IntZero) THEN IntAdd(diff, TwoTo32) ELSE diff

tick_diff(a, b) ==
    LET diff == IntSub(b, a)
    IN  IF IntLt(diff, IntZero) THEN IntAdd(diff, TwoTo32) ELSE diff

\* Arguments the calls of tick_diff are drawn from:
\* 0, 1, 12, 36, 65535, 65536, 250000, 2^31, 4294967272, 2^32 - 2, 2^32 - 1
TickSamples ==
    { <<0, 0>>, <<0, 1>>, <<0, 12>>, <<0, 36>>, <<0, 65535>>, <<1, 0>>,
      <<3, 53392>>, <<32768, 0>>, <<65535, 65512>>, <<65535, 65534>>,
      <<65535, 65535>> }

\* no DHT11 object exists
DhtIdle ==
    /\ self = None /\ pi = None /\ tasks = 0 /\ exc = None /\ pc = None
    /\ result = None /\ count = 0 /\ closes = 0 /\ sensor = None

\* tick_diff is not being called
TickIdle == t1 = None /\ t2 = None /\ diff_out = None

\* the debounce decorator is not in use
DebIdle ==
    /\ threshold = None
    /\ decorates = None
    /\ deb = None
    /\ partials = {}
    /\ fn_calls = <<>>
    /\ log = NoLog

TickInit ==
    /\ DebIdle
    /\ DhtIdle
    /\ t1 \in TickSamples
    /\ t2 \in TickSamples
    /\ diff_out = None

\* diff = tick_diff(t1, t2)
TickCall ==
    /\ diff_out = None
    /\ diff_out' = tick_diff(t1, t2)
    /\ UNCHANGED <<t1, t2>>
    /\ UNCHANGED <<debvars, dhtvars>>

\* the caller picks the next pair of ticks
TickArgs ==
    /\ diff_out # None
    /\ t1' \in TickSamples
    /\ t2' \in TickSamples
    /\ diff_out' = None
    /\ UNCHANGED <<debvars, dhtvars>>

TickNext == TickCall \/ TickArgs

vars == <<tdvars, debvars, dhtvars>>

SpecTick == TickInit /\ [][TickNext]_vars

----------------------------------------------------------------------------
(* utils.debounce                                                          *)

\* bound on the number of calls the debouncer lets through in one run
MaxPassed == 2

\* `threshold` arguments given to the decorator, in milliseconds
ThresholdArgs == {1, 100}

Instances == {"A", "B"}

\* max_tick = 0xFFFFFFFF
max_tick == <<Radix - 1, Radix - 1>>

\* the tick of a call: args[3] of a method call, args[2] of a function call
\* (Python indexes from 0, tuples here from 1)
TickArg(is_method, args) == IF is_method THEN args[4] ELSE args[3]

\* delay between self.last and tick
Delay(last, tick) ==
    IF IntLt(tick, last)
    THEN IntAdd(IntSub(max_tick, last), tick)
    ELSE IntSub(tick, last)

PassesOnEqual(delay, thr) == IntLe(thr, delay)

\* delay > threshold
Passes(delay, thr) == IntLt(thr, delay)

\* ticks the callbacks are called with, around a threshold of thr ticks:
\* 0, 1, thr, thr+1, 2thr, 2thr+1, 2thr+2, 2^32-2, 2^32-1
DebTicks(thr) ==
    LET one == IntOf(1)
        twice == IntAdd(thr, thr)
    IN  { IntZero, one, thr, IntAdd(thr, one), twice, IntAdd(twice, one),
          IntAdd(twice, IntOf(2)), IntSub(max_tick, one), max_tick }

\* debounce(threshold)(pigpio_cb): threshold *= 1000 and _decorated.__init__
DebInit ==
    /\ TickIdle
    /\ DhtIdle
    /\ \E ms \in ThresholdArgs : threshold = IntOf(ms * 1000)
    /\ decorates \in {"function", "method"}
    /\ deb = [last |-> IntZero, is_method |-> FALSE]
    /\ partials = {}
    /\ fn_calls = <<>>
    /\ log = NoLog

\* _decorated.__get__(instance): reading the decorated method of an instance
decorated_get(instance) ==
    /\ decorates = "method"
    /\ deb' = [deb EXCEPT !.is_method = TRUE]
    /\ partials' = partials \cup {instance}
    /\ UNCHANGED <<threshold, decorates, fn_calls, log>>
    /\ UNCHANGED <<tdvars, dhtvars>>

\* _decorated.__call__(*args)
decorated_call(args) ==
    LET tick == TickArg(deb.is_method, args)
        delay == Delay(deb.last, tick)
    IN  /\ Len(fn_calls) < MaxPassed
        /\ IF Passes(delay, threshold)
           THEN /\ fn_calls' = Append(fn_calls, args)
                /\ log' = [msg |-> "passed", tick |-> tick, last |-> deb.last,
                           args |-> args]
                /\ deb' = [deb EXCEPT !.last = tick]
           ELSE /\ log' = [msg |-> "filtered", tick |-> tick, last |-> deb.last,
                           args |-> args]
                /\ UNCHANGED <<fn_calls, deb>>
        /\ UNCHANGED <<threshold, decorates, partials>>
        /\ UNCHANGED <<tdvars, dhtvars>>

\* my_cb(gpio, level, tick) on a decorated function
FunctionCall ==
    /\ decorates = "function"
    /\ \E tick \in DebTicks(threshold) : decorated_call(<<4, 1, tick>>)

\* the partial of instance: partial(self, instance)(gpio, level, tick)
MethodCall ==
    \E instance \in partials : \E tick \in DebTicks(threshold) :
        decorated_call(<<instance, 4, 1, tick>>)

MethodGet == \E instance \in Instances : decorated_get(instance)

DebNext == FunctionCall \/ MethodGet \/ MethodCall

SpecDebounce == DebInit /\ [][DebNext]_vars

----------------------------------------------------------------------------
(* samples/gpio_dht11.py: DHT11Result and the edge handlers of DHT11       *)

ERR_NO_ERROR == 0
ERR_MISSING_DATA == 1
ERR_CRC == 2

\* an attribute that was never assigned (self.checksum after __init__)
NoAttr == 0 - 1

\* DHT11.__init__: the main script binds the module global `loop` before it
\* runs main(), so the handlers below find it.
DHT11_init ==
    [ temperature |-> 0, humidity |-> 0, high_tick |-> IntZero, bit |-> 40,
      either_edge_cb |-> 0,            \* None
      error |-> ERR_NO_ERROR, checksum |-> NoAttr ]

DHT11Result_swapped(s) ==
    [ error_code |-> s.error, temperature |-> s.humidity,
      humidity |-> s.temperature ]

\* DHT11Result(error_code=self._error, temperature=..., humidity=...)
DHT11Result(s) ==
    [ error_code |-> s.error, temperature |-> s.temperature,
      humidity |-> s.humidity ]

\* DHT11Result.is_valid
is_valid(r) == r.error_code = ERR_NO_ERROR

\* what a handler leaves behind: the object, the number of tasks it created
\* on the loop and the exception it raised
Done(s, spawned) == [s |-> s, spawned |-> spawned, exc |-> None]
Raised(s, e) == [s |-> s, spawned |-> 0, exc |-> e]

bit_value_gt(diff) == IF IntLt(IntOf(50), diff) THEN 1 ELSE 0

\* val = 0; if diff >= 50: val = 1
bit_value(diff) == IF IntLe(IntOf(50), diff) THEN 1 ELSE 0

bad_bit_never(s, diff) == s

\* if diff >= 200: self.checksum = 256
bad_bit(s, diff) ==
    IF IntLe(IntOf(200), diff) THEN [s EXCEPT !.checksum = 256] ELSE s

crc_ok_unmasked(s) == (s.humidity + s.temperature) = s.checksum

\* (total & 255) == self.checksum
crc_ok(s) == ((s.humidity + s.temperature) % 256) = s.checksum

skip_bit_shifts(s, val) == [s EXCEPT !.humidity = ((s.humidity * 2) + val) % 256]

\* else: pass (header and reserved bits)
skip_bit(s, val) == s

message_complete_clears(s) == [s EXCEPT !.bit = 40, !.error = ERR_NO_ERROR]

\* if self._bit >= 40: self._bit = 40
message_complete(s) == [s EXCEPT !.bit = 40]

\* DHT11._edge_RISE
edge_RISE(s0, tick, diff) ==
    LET val == bit_value(diff)
        s == bad_bit(s0, diff)
        next(x) == [x EXCEPT !.bit = x.bit + 1]
    IN  IF s.bit >= 40 THEN
            Done(next(message_complete(s)), 0)
        ELSE IF s.bit >= 32 THEN
            IF s.checksum = NoAttr THEN Raised(s, "AttributeError")
            ELSE LET c == [s EXCEPT !.checksum = (s.checksum * 2) + val]
                 IN  IF c.bit = 39
                     THEN IF ~crc_ok(c)
                          THEN Done([c EXCEPT !.error = ERR_CRC], 1)
                          ELSE Done(next(c), 1)
                     ELSE Done(next(c), 0)
        ELSE IF 16 <= s.bit /\ s.bit < 24 THEN
            Done(next([s EXCEPT !.temperature = (s.temperature * 2) + val,
                                !.error = ERR_NO_ERROR]), 0)
        ELSE IF 0 <= s.bit /\ s.bit < 8 THEN
            Done(next([s EXCEPT !.humidity = (s.humidity * 2) + val,
                                !.error = ERR_NO_ERROR]), 0)
        ELSE
            Done(next(skip_bit(s, val)), 0)

new_frame_ge(diff) == IntLe(IntOf(250000), diff)

\* not (diff <= 250000)
new_frame(diff) == ~IntLe(diff, IntOf(250000))

\* DHT11._edge_FALL
edge_FALL(s0, tick, diff) ==
    LET s == [s0 EXCEPT !.high_tick = tick]
    IN  IF ~new_frame(diff) THEN Done(s, 0)
        ELSE Done([s EXCEPT !.bit = 0 - 2, !.checksum = 0, !.temperature = 0,
                            !.humidity = 0], 0)

edge_EITHER_stores_tick(s, tick, diff) == Done([s EXCEPT !.high_tick = tick], 1)

\* DHT11._edge_EITHER
edge_EITHER(s, tick, diff) == Done(s, 1)

\* DHT11.either_edge_callback(gpio, level, tick)
either_edge_callback(s, level, tick) ==
    LET diff == tick_diff(s.high_tick, tick)
    IN  CASE level = "FALLING_EDGE" -> edge_FALL(s, tick, diff)
          [] level = "RISING_EDGE" -> edge_RISE(s, tick, diff)
          [] level = "EITHER_EDGE" -> edge_EITHER(s, tick, diff)

----------------------------------------------------------------------------
(* The apigpio.Pi connection the decoder talks to: the watchdog of the     *)
(* gpio and the callbacks registered for it.                               *)

Pi_init == [watchdog |-> 0, callbacks |-> {}, handles |-> 0, cancelled |-> <<>>]

\* pi.set_watchdog(gpio, timeout)
set_watchdog(p, timeout) == [p EXCEPT !.watchdog = timeout]

\* pi.add_callback(gpio, EITHER_EDGE, func): the handle returned is p.handles
add_callback(p) ==
    [p EXCEPT !.handles = @ + 1, !.callbacks = @ \cup {p.handles + 1}]

\* handle.cancel()
cancel(p, handle) ==
    [p EXCEPT !.callbacks = @ \ {handle}, !.cancelled = Append(@, handle)]

\* one notification (level, tick) of the gpio: every registered callback is
\* called with it, one after the other
RECURSIVE notify(_, _, _, _)
notify(r, n, level, tick) ==
    IF n = 0 THEN r
    ELSE LET o == either_edge_callback(r.s, level, tick)
         IN  notify([s |-> o.s, spawned |-> r.spawned + o.spawned,
                     exc |-> IF o.exc # None THEN o.exc ELSE r.exc],
                    n - 1, level, tick)

\* bound on the tasks waiting on the loop
MaxTasks == 2
\* bound on the bits of self.checksum, which the code shifts without limit
MaxChecksumBits == 20

Notification(level, tick) ==
    LET o == notify(Done(self, 0), Cardinality(pi.callbacks), level, tick)
    IN  /\ pi.callbacks # {}
        /\ pc # "body"
        /\ tasks + o.spawned <= MaxTasks
        /\ o.s.checksum < 2 ^ MaxChecksumBits
        /\ self' = o.s
        /\ tasks' = tasks + o.spawned
        /\ exc' = o.exc

\* the loop runs a task created by loop.create_task(pi.set_watchdog(gpio, 0))
RunTask ==
    /\ tasks > 0
    /\ pc # "body"
    /\ tasks' = tasks - 1
    /\ pi' = set_watchdog(pi, 0)
    /\ UNCHANGED <<self, exc, pc, result, count, closes, sensor>>
    /\ UNCHANGED <<tdvars, debvars>>

\* the watchdog of the gpio expires: a notification with the reserved level
Watchdog ==
    /\ pi.watchdog # 0
    /\ Notification("EITHER_EDGE", IntZero)
    /\ UNCHANGED <<pi, pc, result, count, closes, sensor>>
    /\ UNCHANGED <<tdvars, debvars>>

----------------------------------------------------------------------------
(* The sensor on the line.  After the line was idle for more than 250 ms   *)
(* it sends a frame: hdr header pulses, then 40 data pulses carrying the   *)
(* bytes h, hd, t, td, c most significant bit first.  Each pulse is a        *)
(* notification handled by _edge_RISE, diff ticks after the one handled by *)
(* _edge_FALL before it.                                                   *)

\* bound on the pulses sent outside a frame (before the first, after the last)
MaxExtra == 2
\* bound on the overlong pulses (diff >= 200) within one frame
MaxLong == 1

ZeroDiffs == {IntOf(26), IntOf(49)}
OneDiffs == {IntOf(50), IntOf(199)}
LongDiffs == {IntOf(200)}
HeaderDiffs == {IntOf(80)}
\* ticks from one pulse to the next
Period == IntOf(256)
\* ticks at which the line falls after an idle time: 250001, 4294967272
StartTicks == { <<3, 53393>>, <<65535, 65512>> }
\* a tick at which the line falls before the sensor sends anything: 250000
StrayTicks == { <<3, 53392>> }

\* (t + d) mod 2^32: the tick d microseconds after tick t
TickAdd(t, d) == Mod32(IntAdd(t, d))

NoFrame == [hdr |-> 0, len |-> 0]

\* the frames a sensor may send: checksum byte (h + t + off) mod 256
Frame(h, t, off, hdr) ==
    [h |-> h, hd |-> 0, t |-> t, td |-> 0, c |-> (h + t + off) % 256,
     hdr |-> hdr, len |-> hdr + 40]

\* a frame whose checksum byte 35 is half the sum of its data bytes
HalvedFrame == [Frame(45, 25, 0, 2) EXCEPT !.c = 35]

\* a frame whose second and fourth bytes are 129 and 3
FractionFrame == [Frame(45, 25, 0, 2) EXCEPT !.hd = 129, !.td = 3]

Frames ==
    { Frame(h, t, off, hdr) : h \in {45, 200}, t \in {25, 100},
                              off \in {0, 1}, hdr \in {0, 2} }
    \cup {HalvedFrame, FractionFrame}

\* bit i (0..39) of the data of frame f
FrameBit(f, i) ==
    LET byte == <<f.h, f.hd, f.t, f.td, f.c>>[(i \div 8) + 1]
    IN  (byte \div (2 ^ (7 - (i % 8)))) % 2

\* the line was idle for more than 250 ms
IdleGap(diff) == IntLt(IntOf(250000), diff)

\* long_ck records that a pulse of the frame with diff >= 200 was handled
\* while self._bit was in 32..39, crc that the comparison at bit 39 failed
\* for a pulse sent since the last frame start, bad that the last pulse had
\* diff >= 200
Sensor_init ==
    [frame |-> NoFrame, sent |-> 0, long |-> 0, next |-> "FALL", fell |-> IntZero,
     long_ck |-> FALSE, crc |-> FALSE, bad |-> FALSE]

\* the ticks at which the line may fall next
FallTicks ==
    (IF sensor.sent < sensor.frame.len + MaxExtra
     THEN {TickAdd(sensor.fell, Period)} ELSE {})
    \cup { t \in StartTicks : IdleGap(tick_diff(sensor.fell, t)) }
    \cup { t \in StrayTicks : sensor.fell = IntZero /\ sensor.frame = NoFrame }

\* the widths the next pulse may have
PulseDiffs(maxlong) ==
    LET f == sensor.frame
        i == sensor.sent - f.hdr
        long == IF sensor.long < maxlong THEN LongDiffs ELSE {}
    IN  IF sensor.sent >= f.len
        THEN ZeroDiffs \cup OneDiffs \cup (IF maxlong > 0 THEN LongDiffs ELSE {})
        ELSE IF i < 0 THEN HeaderDiffs \cup long
        ELSE IF FrameBit(f, i) = 1 THEN OneDiffs \cup long
        ELSE ZeroDiffs \cup (IF (i \div 8) \in {1, 3, 4} THEN long ELSE {})

\* the line falls: a notification handled by _edge_FALL
SensorFall(frames) ==
    /\ sensor.next = "FALL"
    /\ \E tick \in FallTicks :
          /\ Notification("FALLING_EDGE", tick)
          /\ IF IdleGap(tick_diff(sensor.fell, tick))
             THEN \E f \in frames :
                     sensor' = [frame |-> f, sent |-> 0, long |-> 0,
                                next |-> "RISE", fell |-> tick,
                                long_ck |-> FALSE, crc |-> FALSE,
                                bad |-> FALSE]
             ELSE sensor' = [sensor EXCEPT !.next = "RISE", !.fell = tick]
    /\ UNCHANGED <<pi, pc, result, count, closes>>
    /\ UNCHANGED <<tdvars, debvars>>

\* the line rises: a notification handled by _edge_RISE
SensorRise(maxlong) ==
    /\ sensor.next = "RISE"
    /\ \E diff \in PulseDiffs(maxlong) :
          /\ Notification("RISING_EDGE", TickAdd(sensor.fell, diff))
          /\ sensor' = [sensor EXCEPT
                          !.next = "FALL",
                          !.sent = @ + 1,
                          !.long = IF diff \in LongDiffs /\ sensor.sent < sensor.frame.len
                                   THEN @ + 1 ELSE @,
                          !.long_ck = @ \/ (diff \in LongDiffs /\ self.bit \in 32..39),
                          !.crc = @ \/ (self.bit = 39 /\ ~crc_ok(self')),
                          !.bad = diff \in LongDiffs]
    /\ UNCHANGED <<pi, pc, result, count, closes>>
    /\ UNCHANGED <<tdvars, debvars>>

----------------------------------------------------------------------------
(* The coroutines of DHT11, one step per await.                            *)

\* DHT11.connect up to register_callbacks: set_pull_up_down, set_watchdog(0)
connect(p) == set_watchdog(p, 0)

\* DHT11.register_callbacks: self._either_edge_cb = await pi.add_callback(...)
register_callbacks(s, p) ==
    [s |-> [s EXCEPT !.either_edge_cb = p.handles + 1], p |-> add_callback(p)]

\* DHT11.read up to the last sleep: write LOW, sleep, set_mode, set_watchdog(200)
read(p) == set_watchdog(p, 200)

close_keeps_handle(s, p) ==
    IF s.either_edge_cb # 0
    THEN [s |-> s, p |-> cancel(p, s.either_edge_cb)]
    ELSE [s |-> s, p |-> p]

\* DHT11.close after set_watchdog(0): cancel the callback and forget it
close(s, p) ==
    IF s.either_edge_cb # 0
    THEN [s |-> [s EXCEPT !.either_edge_cb = 0], p |-> cancel(p, s.either_edge_cb)]
    ELSE [s |-> s, p |-> p]

\* main(max_count=1)
max_count == 1

\* async with DHT11(pi, gpio) as sensor: __aenter__ awaits connect()
Main_aenter ==
    /\ pc = "start"
    /\ pi' = connect(pi)
    /\ pc' = "connect"
    /\ UNCHANGED <<self, tasks, exc, result, count, closes, sensor>>
    /\ UNCHANGED <<tdvars, debvars>>

Main_register ==
    /\ pc = "connect"
    /\ self' = register_callbacks(self, pi).s
    /\ pi' = register_callbacks(self, pi).p
    /\ pc' = "loop"
    /\ UNCHANGED <<tasks, exc, result, count, closes, sensor>>
    /\ UNCHANGED <<tdvars, debvars>>

\* async for result in sensor: __anext__ sleeps, then read() arms the watchdog
Main_anext ==
    /\ pc = "loop"
    /\ pi' = read(pi)
    /\ result' = None
    /\ pc' = "read"
    /\ UNCHANGED <<self, tasks, exc, count, closes, sensor>>
    /\ UNCHANGED <<tdvars, debvars>>

\* read() returns after its last sleep and __anext__ returns the DHT11Result
Main_result ==
    /\ pc = "read"
    /\ result' = DHT11Result(self)
    /\ pc' = "body"
    /\ UNCHANGED <<self, pi, tasks, exc, count, closes, sensor>>
    /\ UNCHANGED <<tdvars, debvars>>

\* the body of the loop counts the result; it does not await, so nothing
\* runs between __anext__ returning and the end of the body
Main_body ==
    /\ pc = "body"
    /\ count' = IF is_valid(result) THEN count + 1 ELSE count
    /\ pc' = IF count' >= max_count THEN "exit" ELSE "loop"
    /\ result' = None
    /\ UNCHANGED <<self, pi, tasks, exc, closes, sensor>>
    /\ UNCHANGED <<tdvars, debvars>>

\* __aexit__ awaits close(): set_watchdog(0)
Main_aexit ==
    /\ pc = "exit"
    /\ pi' = set_watchdog(pi, 0)
    /\ pc' = "close"
    /\ UNCHANGED <<self, tasks, exc, result, count, closes, sensor>>
    /\ UNCHANGED <<tdvars, debvars>>

Main_close ==
    /\ pc = "close"
    /\ self' = close(self, pi).s
    /\ pi' = close(self, pi).p
    /\ closes' = closes + 1
    /\ pc' = "done"
    /\ UNCHANGED <<tasks, exc, result, count, sensor>>
    /\ UNCHANGED <<tdvars, debvars>>

Init ==
    /\ TickIdle
    /\ DebIdle
    /\ self = DHT11_init
    /\ pi = Pi_init
    /\ tasks = 0
    /\ exc = None
    /\ pc = "start"
    /\ result = None
    /\ count = 0
    /\ closes = 0
    /\ sensor = Sensor_init

Fall == SensorFall(Frames)

Rise == SensorRise(MaxLong)

Next ==
    \/ Main_aenter \/ Main_register \/ Main_anext \/ Main_result \/ Main_body
    \/ Main_aexit \/ Main_close
    \/ Fall \/ Rise \/ Watchdog \/ RunTask

\* the sample run as a script: main() against a sensor on the line
Spec == Init /\ [][Next]_vars

----------------------------------------------------------------------------
(* The methods of DHT11 called in any order by one caller, one call at a   *)
(* time: connect(), __anext__() and close().                               *)

\* bound on the connect() calls of one run
MaxConnects == 2
\* bound on the close() calls in a row
MaxCloses == 2

Api_connect ==
    /\ pc = "idle"
    /\ pi.handles < MaxConnects
    /\ pi' = connect(pi)
    /\ closes' = 0
    /\ pc' = "connect"
    /\ UNCHANGED <<self, tasks, exc, result, count, sensor>>
    /\ UNCHANGED <<tdvars, debvars>>

Api_register ==
    /\ pc = "connect"
    /\ self' = register_callbacks(self, pi).s
    /\ pi' = register_callbacks(self, pi).p
    /\ pc' = "idle"
    /\ UNCHANGED <<tasks, exc, result, count, closes, sensor>>
    /\ UNCHANGED <<tdvars, debvars>>

Api_anext ==
    /\ pc = "idle"
    /\ pi' = read(pi)
    /\ closes' = 0
    /\ pc' = "read"
    /\ UNCHANGED <<self, tasks, exc, result, count, sensor>>
    /\ UNCHANGED <<tdvars, debvars>>

Api_result ==
    /\ pc = "read"
    /\ result' = DHT11Result(self)
    /\ pc' = "body"
    /\ UNCHANGED <<self, pi, tasks, exc, count, closes, sensor>>
    /\ UNCHANGED <<tdvars, debvars>>

\* the caller looks at the result, without awaiting
Api_body ==
    /\ pc = "body"
    /\ result' = None
    /\ pc' = "idle"
    /\ UNCHANGED <<self, pi, tasks, exc, count, closes, sensor>>
    /\ UNCHANGED <<tdvars, debvars>>

Api_close ==
    /\ pc = "idle"
    /\ closes < MaxCloses
    /\ pi' = set_watchdog(pi, 0)
    /\ pc' = "close"
    /\ UNCHANGED <<self, tasks, exc, result, count, closes, sensor>>
    /\ UNCHANGED <<tdvars, debvars>>

Api_closed ==
    /\ pc = "close"
    /\ self' = close(self, pi).s
    /\ pi' = close(self, pi).p
    /\ closes' = closes + 1
    /\ pc' = "idle"
    /\ UNCHANGED <<tasks, exc, result, count, sensor>>
    /\ UNCHANGED <<tdvars, debvars>>

SessionInit ==
    /\ TickIdle
    /\ DebIdle
    /\ self = DHT11_init
    /\ pi = Pi_init
    /\ tasks = 0
    /\ exc = None
    /\ pc = "idle"
    /\ result = None
    /\ count = 0
    /\ closes = 0
    /\ sensor = Sensor_init

\* the sensor of a session breaks off after the header and the first two
\* bits of a frame
SessionFrames == { [Frame(45, 25, 0, 2) EXCEPT !.len = 4] }

SessionFall == SensorFall(SessionFrames)

SessionRise == SensorRise(MaxLong)

SessionNext ==
    \/ Api_connect \/ Api_register \/ Api_anext \/ Api_result \/ Api_body
    \/ Api_close \/ Api_closed
    \/ SessionFall \/ SessionRise \/ Watchdog \/ RunTask

SpecSession == SessionInit /\ [][SessionNext]_vars

----------------------------------------------------------------------------
(* Properties of tick_diff and of the debouncer                            *)

\* C6: for all ticks a, b the result d of tick_diff(a, b) is a tick
\* (0 <= d < 2^32) with a + d = b modulo 2^32, that is d = (b - a) mod 2^32;
\* tick_diff(a, a) = 0 and tick_diff(4294967272, 12) = 36.
C6_TickDiffIsModularDifference ==
    diff_out # None =>
        /\ IsTick(diff_out)
        /\ Mod32(IntAdd(t1, diff_out)) = t2
        /\ (t1 = t2 => diff_out = IntZero)
        /\ (t1 = <<65535, 65512>> /\ t2 = <<0, 12>> => diff_out = <<0, 36>>)

\* tick_diff was applied to a pair that wraps around (the later tick is the
\* numerically smaller one)
C6_Witness ==
    /\ diff_out # None
    /\ t1 = <<65535, 65512>>
    /\ t2 = <<0, 12>>
    /\ diff_out = <<0, 36>>

\* C7: without wraparound (last accepted tick t0 <= t), a call at tick t with
\* t - t0 <= threshold is filtered, the wrapped callback is not called and
\* self.last stays t0; a call with t - t0 > threshold calls the wrapped
\* callback exactly once, with the arguments of the call, and sets self.last
\* to t.
C7_DebounceThreshold ==
    [][ (log' # log /\ IntLe(deb.last, log'.tick)) =>
            IF IntLe(IntSub(log'.tick, deb.last), threshold)
            THEN /\ log'.msg = "filtered"
                 /\ fn_calls' = fn_calls
                 /\ deb'.last = deb.last
            ELSE /\ log'.msg = "passed"
                 /\ fn_calls' = Append(fn_calls, log'.args)
                 /\ deb'.last = log'.tick
      ]_vars

\* a call threshold + 1 ticks after an accepted call at t0 = threshold + 1
\* was let through
C7_Witness ==
    /\ log # NoLog
    /\ log.msg = "passed"
    /\ log.last = IntAdd(threshold, IntOf(1))
    /\ log.tick = IntAdd(log.last, IntAdd(threshold, IntOf(1)))
    /\ Len(fn_calls) = 2
    /\ deb.last = log.tick

\* C8: a call whose tick is numerically smaller than the last accepted tick
\* (wraparound) and whose true elapsed time tick_diff(last, tick) exceeds the
\* threshold is let through.
C8_WraparoundAccepted ==
    (log # NoLog /\ IntLt(log.tick, log.last)
                /\ IntLt(threshold, tick_diff(log.last, log.tick)))
        => log.msg = "passed"

\* the calls let through before the last call
PassedBefore ==
    IF log # NoLog /\ log.msg = "passed"
    THEN SubSeq(fn_calls, 1, Len(fn_calls) - 1)
    ELSE fn_calls

\* the tick of the last call in calls that was made through instance, 0 when
\* there is none
OwnLast(calls, instance) ==
    LET own == { i \in 1..Len(calls) : calls[i][1] = instance }
    IN  IF own = {} THEN IntZero
        ELSE calls[CHOOSE i \in own : \A j \in own : j <= i][4]

\* C9: with the decorator on a method, every instance has its own debounce
\* state: a call through an instance is let through exactly when the delay
\* since the last call let through for that same instance exceeds the
\* threshold.
C9_PerInstanceState ==
    (log # NoLog /\ decorates = "method") =>
        (log.msg = "passed" <=>
            Passes(Delay(OwnLast(PassedBefore, log.args[1]), log.tick), threshold))

\* the ticks of the calls let through so far
PassedTicks ==
    { TickArg(decorates = "method", fn_calls[i]) : i \in DOMAIN fn_calls }

\* C20: a call is filtered only if some earlier call was let through at most
\* threshold ticks before it; in particular the first call made to a freshly
\* decorated callback is let through, whatever its tick.
C20_FilteredOnlyAfterAccepted ==
    (log # NoLog /\ log.msg = "filtered") =>
        \E t \in PassedTicks : IntLe(tick_diff(t, log.tick), threshold)

----------------------------------------------------------------------------
(* Properties of the decoder under main()                                  *)

\* the sensor sent all of frame f: hdr header pulses and the 40 data pulses,
\* none of them overlong, and nothing after them
SentAll(hdr) ==
    /\ sensor.frame # NoFrame
    /\ sensor.frame.hdr = hdr
    /\ sensor.long = 0
    /\ sensor.sent = sensor.frame.len

\* the checksum byte of the frame is the sum of its data bytes modulo 256
GoodChecksum == sensor.frame.c = (sensor.frame.h + sensor.frame.t) % 256

\* the result a read returns for the frame the sensor sent
Decoded ==
    [ error_code |-> ERR_NO_ERROR, temperature |-> sensor.frame.t,
      humidity |-> sensor.frame.h ]

\* C1 as stated: after the falling edge that starts a frame, exactly 40
\* correctly timed pulses carrying h, 0, t, 0, (h + t) mod 256 give a result
\* with error NoError, humidity h and temperature t.
C1_FortyPulsesDecode ==
    (SentAll(0) /\ GoodChecksum) => DHT11Result(self) = Decoded

\* C1 amended: after the falling edge that starts a frame, two header pulses
\* followed by exactly 40 correctly timed pulses carrying h, 0, t, 0,
\* (h + t) mod 256 give a result with error NoError, humidity h and
\* temperature t, and that is what a read finalized then returns.
C1_HeaderAndFortyPulsesDecode ==
    (SentAll(2) /\ GoodChecksum) =>
        /\ DHT11Result(self) = Decoded
        /\ self.bit = 40
        /\ (pc = "body" => result = Decoded)

\* a read returned the frame humidity 45, temperature 25, checksum 70
C1_Witness ==
    /\ SentAll(2) /\ GoodChecksum
    /\ sensor.frame.h = 45 /\ sensor.frame.t = 25 /\ sensor.frame.c = 70
    /\ pc = "body"
    /\ result = [error_code |-> ERR_NO_ERROR, temperature |-> 25, humidity |-> 45]

\* C2: a read finalized while self._bit < 40 returns error ERR_MISSING_DATA,
\* unless ERR_CRC was recorded before.
C2_IncompleteFrame ==
    (pc = "body" /\ self.bit < 40) =>
        result.error_code = IF self.error = ERR_CRC THEN ERR_CRC ELSE ERR_MISSING_DATA

\* a pulse is handled while self._bit is b
RiseAt(b) == self.bit = b /\ sensor'.sent = sensor.sent + 1

\* C3: the rising edge handled at bit 39 sets the error to ERR_CRC when the
\* checksum received differs from (humidity + temperature) & 0xFF and leaves
\* the error alone when they are equal; so a frame sent in full ends with
\* ERR_CRC exactly when its checksum byte is wrong.
C3_ChecksumCompared ==
    /\ [][ RiseAt(39) =>
              IF self'.checksum # (self.humidity + self.temperature) % 256
              THEN self'.error = ERR_CRC
              ELSE self'.error = self.error ]_vars
    /\ [](SentAll(2) => (self.error = ERR_CRC <=> ~GoodChecksum))

\* a frame with a wrong checksum byte was received in full
C3_Witness ==
    /\ SentAll(2) /\ ~GoodChecksum
    /\ self.error = ERR_CRC
    /\ self.humidity = sensor.frame.h /\ self.temperature = sensor.frame.t
    /\ self.checksum = sensor.frame.c

\* C4: when a pulse handled while self._bit is in 32..39 has diff >= 200, the
\* rising edge handled at bit 39 leaves the error at ERR_CRC, whatever the
\* bits of the frame.
C4_LongPulseForcesCrc ==
    [][ (RiseAt(39) /\ sensor'.long_ck) => self'.error = ERR_CRC ]_vars

\* a frame whose checksum byte is right ended with ERR_CRC because of an
\* overlong pulse in the checksum byte
C4_Witness ==
    /\ sensor.frame # NoFrame /\ sensor.frame.hdr = 2 /\ GoodChecksum
    /\ sensor.sent = sensor.frame.len
    /\ sensor.long_ck
    /\ self.error = ERR_CRC
    /\ self.humidity = sensor.frame.h /\ self.temperature = sensor.frame.t

\* the line falls
FallStep == sensor.next = "FALL" /\ sensor'.next = "RISE"

\* C5: a falling edge with diff = tick_diff(self._high_tick, tick) > 250000
\* sets self._bit to -2 and checksum, temperature and humidity to 0 from any
\* state; one with diff <= 250000 leaves the four unchanged.
C5_FallingEdgeReset ==
    [][ FallStep =>
          IF IntLt(IntOf(250000), tick_diff(self.high_tick, sensor'.fell))
          THEN /\ self'.bit = 0 - 2
               /\ self'.checksum = 0
               /\ self'.temperature = 0
               /\ self'.humidity = 0
          ELSE /\ self'.bit = self.bit
               /\ self'.checksum = self.checksum
               /\ self'.temperature = self.temperature
               /\ self'.humidity = self.humidity ]_vars

\* a frame start right after a frame that ended with ERR_CRC
C5_Witness ==
    /\ sensor.sent = 0 /\ sensor.next = "RISE" /\ sensor.frame # NoFrame
    /\ self.error = ERR_CRC
    /\ self.bit = 0 - 2
    /\ self.checksum = 0 /\ self.temperature = 0 /\ self.humidity = 0

\* C13: in the state right after a frame-start reset (a falling edge with
\* diff > 250000) the error is ERR_NO_ERROR, also when the frame before ended
\* with ERR_CRC.
C13_ResetClearsError ==
    [][ (FallStep /\ new_frame(tick_diff(self.high_tick, sensor'.fell))) =>
            self'.error = ERR_NO_ERROR ]_vars

\* the line rises: one call of _edge_RISE
RiseStep == sensor'.sent = sensor.sent + 1

\* C14: once the error was set to ERR_CRC it stays ERR_CRC through every
\* rising edge, every falling edge with diff <= 250000 and every watchdog
\* notification, until a falling edge with diff > 250000 starts a frame.
C14_CrcErrorSticks ==
    /\ [](sensor.crc => self.error = ERR_CRC)
    /\ [][ (self.error = ERR_CRC /\ self'.error # ERR_CRC) =>
              (RiseStep /\ ~sensor.crc) ]_vars

\* after the comparison at bit 39 failed, two more pulses were handled, the
\* second of them with the message complete, and the watchdog tasks ran
C14_Witness ==
    /\ sensor.crc
    /\ sensor.frame = HalvedFrame
    /\ sensor.sent = sensor.frame.len + 2
    /\ self.bit = 41
    /\ tasks = 0
    /\ pi.watchdog = 0
    /\ self.error = ERR_CRC

\* self._bit is below 0 or in the second or fourth byte of the frame
Reserved(b) == b < 0 \/ b \in 8..15 \/ b \in 24..31

\* C16: a rising edge with diff < 200 handled while self._bit is below 0, in
\* 8..15 or in 24..31 changes none of humidity, temperature, checksum and
\* error and advances self._bit by 1; a rising edge changes humidity only
\* while self._bit is in 0..7 and temperature only while it is in 16..23.
C16_ReservedBitsSkipped ==
    [][ RiseStep =>
          /\ (Reserved(self.bit) /\ ~sensor'.bad) =>
                 /\ self'.humidity = self.humidity
                 /\ self'.temperature = self.temperature
                 /\ self'.checksum = self.checksum
                 /\ self'.error = self.error
                 /\ self'.bit = self.bit + 1
          /\ (self'.humidity # self.humidity => self.bit \in 0..7)
          /\ (self'.temperature # self.temperature => self.bit \in 16..23) ]_vars

\* a frame with 1 bits in its second and fourth byte was decoded to the
\* humidity and temperature of its first and third byte, without error
C16_Witness ==
    /\ sensor.frame = FractionFrame
    /\ SentAll(2)
    /\ self.bit = 40
    /\ self.humidity = 45 /\ self.temperature = 25 /\ self.checksum = 70
    /\ self.error = ERR_NO_ERROR

\* C15: a rising edge handled while self._bit = 40 is ignored, whatever its
\* diff: self._bit stays 40 and humidity, temperature, checksum and error are
\* unchanged.
C15_CompleteFrameIgnoresPulses ==
    [][ (RiseStep /\ self.bit = 40) =>
            /\ self'.bit = 40
            /\ self'.humidity = self.humidity
            /\ self'.temperature = self.temperature
            /\ self'.checksum = self.checksum
            /\ self'.error = self.error ]_vars

\* C17: in every reachable state self._bit is in -2..40 and humidity and
\* temperature are in 0..255.
C17_Ranges ==
    /\ self.bit \in (0 - 2)..40
    /\ self.humidity \in 0..255
    /\ self.temperature \in 0..255

\* a watchdog notification is handled: a task is created and the line did
\* not change
WatchdogStep == tasks' > tasks /\ sensor' = sensor

\* C18: a watchdog notification leaves the decoder unchanged (self._bit,
\* humidity, temperature, checksum, error and self._high_tick); all it does
\* is create one task, which sets the watchdog of the gpio to 0 when it runs.
C18_WatchdogOnlyDisarms ==
    /\ [][ WatchdogStep =>
              /\ self' = self
              /\ exc' = None
              /\ tasks' = tasks + 1
              /\ pi' = pi ]_vars
    /\ [][ tasks' < tasks =>
              /\ tasks' = tasks - 1
              /\ pi' = [pi EXCEPT !.watchdog = 0]
              /\ self' = self ]_vars

\* no pulse was ever sent, the line fell once at tick 250000; the watchdog
\* armed by a read expired twice and the first of the two tasks has run
C18_Witness ==
    /\ sensor.frame = NoFrame
    /\ sensor.sent = 0
    /\ sensor.fell = <<3, 53392>>
    /\ self.high_tick = sensor.fell
    /\ self.bit = 40
    /\ tasks = 1
    /\ pi.watchdog = 0
    /\ pc = "read"

\* C19: whenever a read returns a result that is_valid(), the decoder holds
\* a complete frame whose checksum was verified: self._bit = 40 and
\* (humidity + temperature) & 0xFF = checksum.
C19_ValidMeansCompleteFrame ==
    (pc = "body" /\ is_valid(result)) =>
        /\ self.bit = 40
        /\ self.checksum # NoAttr
        /\ crc_ok(self)

\* C12: a rising edge handled while self._bit < 40 increases self._bit by
\* exactly 1, whatever the branch and whatever the outcome of the checksum
\* comparison at bit 39; a rising edge handled while self._bit >= 40 leaves
\* self._bit at 40.
C12_RisingEdgeAdvancesByOne ==
    [][ RiseStep =>
          IF self.bit < 40 THEN self'.bit = self.bit + 1
          ELSE self'.bit = 40 ]_vars

----------------------------------------------------------------------------
(* Properties of connect(), __anext__() and close() called in any order    *)

\* a step of close(): its set_watchdog(0), or what follows it
CloseStep == (pc = "idle" /\ pc' = "close") \/ (pc = "close" /\ pc' = "idle")

\* cancel() was called on no handle twice, and never on None
NoDoubleCancel ==
    \A i, j \in DOMAIN pi.cancelled :
        /\ pi.cancelled[i] # 0
        /\ (i # j => pi.cancelled[i] # pi.cancelled[j])

\* C10: close() is idempotent: called again right after a close(), it raises
\* nothing, calls cancel() on no handle a second time, and leaves the decoder
\* and the connection as the first call left them: no callback handle held,
\* watchdog off.
C10_CloseIdempotent ==
    /\ [](NoDoubleCancel)
    /\ []((closes >= 1 /\ pc \in {"idle", "close"}) =>
             (self.either_edge_cb = 0 /\ pi.watchdog = 0))
    /\ [][ (closes >= 1 /\ CloseStep) => (self' = self /\ pi' = pi) ]_vars

\* close() was called twice in a row on a connected decoder
C10_Witness ==
    /\ closes = 2
    /\ pc = "idle"
    /\ pi.handles = 1
    /\ pi.cancelled = <<1>>
    /\ pi.callbacks = {}

\* the last call was a close() and it has completed
Closed == closes >= 1 /\ pc = "idle"

\* C11: after any sequence of connect() and close() calls that ends
\* with a completed close(), every callback the decoder registered has been
\* cancelled and the watchdog is off.
C11_AllCancelledAfterClose ==
    Closed => (pi.callbacks = {} /\ pi.watchdog = 0)

\* self.checksum is never read before it was assigned
NoAttributeError == exc = None

====
